---- MODULE Spec2Model ----
(***************************************************************************)
(* A model of src/format.c (lua-string-format): the UTF-8 length decoder   *)
(* utf8len, the quoted-string encoder push_quoted_string, and the format   *)
(* string parser format_arguments with its entry point format_lua.         *)
(*                                                                         *)
(* Bytes are integers 0..255.  A C string in memory is a sequence of bytes *)
(* followed by its terminating zero byte; a read outside the modelled      *)
(* memory yields -1 (no byte).                                             *)
(***************************************************************************)
EXTENDS Integers, Sequences, FiniteSets, TLC

VARIABLES
    ubuf, ures, upc,                    \* utf8len: buffer, result, position
    qs, qpos, qlen, qout, qpc, qadv,    \* push_quoted_string
    qread,      \* the highest index of the string's memory read so far
    stack,      \* the values format_lua is called with; stack[1] is the template
    slack,      \* the bytes found behind the template's terminating zero
    overrun,    \* the scan has moved behind the terminating zero
    cur, head,  \* format_arguments: 1-based indices into the template's memory
    nextarg,    \* format_arguments: index of the last argument taken
    pieces,     \* the strings pushed above the arguments, in order
    maxidx,     \* the highest stack index a specifier has read
    lastspec,   \* the specifier handled last
    lastarg,    \* format_lua: what format_arguments returned
    ret,        \* format_lua: the values returned
    err,        \* the error raised: its kind and the text it names
    pc

uvars == <<ubuf, ures, upc>>
qvars == <<qs, qpos, qlen, qout, qpc, qadv, qread>>
fvars == <<stack, slack, overrun, cur, head, nextarg, pieces, maxidx,
           lastspec, lastarg, ret, err, pc>>
vars == <<ubuf, ures, upc, qs, qpos, qlen, qout, qpc, qadv, qread,
          stack, slack, overrun, cur, head, nextarg, pieces, maxidx,
          lastspec, lastarg, ret, err, pc>>

----------------------------------------------------------------------------
(* Bounds of the model *)

MaxULen == 4        \* longest buffer handed to utf8len
MaxQLen == 3        \* longest string handed to push_quoted_string
MaxTmplLen == 3     \* longest template drawn over all of TmplChars
MaxArgs == 3        \* most arguments after the template
MaxSlack == 1       \* bytes of memory modelled behind the template's zero byte

----------------------------------------------------------------------------
(* Memory *)

\* the byte at 1-based index i of memory m, -1 outside of it
MemAt(m, i) == IF i \in 1..Len(m) THEN m[i] ELSE -1

\* a Lua string of bytes s as the C side sees it: the bytes and a zero byte
CStr(s) == s \o <<0>>

----------------------------------------------------------------------------
(* is_utf8firstb, utf8len *)

\* a variant of is_utf8firstb with case 0xC0 ... 0xDF for the 2-byte leads
is_utf8firstb_c0(b) ==
    \/ b \in 0..127
    \/ b \in 192..223
    \/ b \in 224..239
    \/ b \in 240..244

\* a variant of is_utf8firstb with case 0x01 ... 0x7F for the 1-byte leads
is_utf8firstb_nonzero(b) ==
    \/ b \in 1..127
    \/ b \in 194..223
    \/ b \in 224..239
    \/ b \in 240..244

is_utf8firstb(b) ==
    \/ b \in 0..127
    \/ b \in 194..223
    \/ b \in 224..239
    \/ b \in 240..244

\* ((c) & 0xC0) == 0x80
is_utf8tail(c) == c >= 0 /\ (c \div 64) * 64 = 128

\* the resynchronising tail of the 3-byte cases: s1, s2 are s[1], s[2]
resync3(m, p) ==
    IF is_utf8firstb(MemAt(m, p + 1)) THEN -1
    ELSE IF is_utf8firstb(MemAt(m, p + 2)) THEN -2
    ELSE -3

resync4(m, p) ==
    IF is_utf8firstb(MemAt(m, p + 1)) THEN -1
    ELSE IF is_utf8firstb(MemAt(m, p + 2)) THEN -2
    ELSE IF is_utf8firstb(MemAt(m, p + 3)) THEN -3
    ELSE -4

\* utf8len(s) with s = m + p - 1 (p is a 1-based index into m)
utf8len(m, p) ==
    LET s0 == MemAt(m, p)
        s1 == MemAt(m, p + 1)
        s2 == MemAt(m, p + 2)
        s3 == MemAt(m, p + 3)
    IN  CASE s0 \in 0..127 -> 1
          [] s0 \in 128..191 \/ s0 \in 192..193 -> -1
          [] s0 \in 194..223 ->
                IF is_utf8tail(s1) THEN 2
                ELSE IF is_utf8firstb(s1) THEN -1
                ELSE -2
          [] s0 = 224 ->
                IF s1 >= 160 /\ s1 <= 191 /\ is_utf8tail(s2) THEN 3
                ELSE resync3(m, p)
          [] s0 \in 225..236 ->
                IF is_utf8tail(s1) /\ is_utf8tail(s2) THEN 3
                ELSE resync3(m, p)
          [] s0 = 237 ->
                IF s1 >= 128 /\ s1 <= 159 /\ is_utf8tail(s2) THEN 3
                ELSE resync3(m, p)
          [] s0 \in 238..239 ->
                IF is_utf8tail(s1) /\ is_utf8tail(s2) THEN 3
                ELSE resync3(m, p)
          [] s0 = 240 ->
                IF s1 >= 144 /\ s1 <= 191 /\ is_utf8tail(s2) /\ is_utf8tail(s3)
                THEN 4
                ELSE resync4(m, p)
          [] s0 \in 241..243 ->
                IF is_utf8tail(s1) /\ is_utf8tail(s2) /\ is_utf8tail(s3)
                THEN 4
                ELSE resync4(m, p)
          [] s0 = 244 ->
                IF s1 >= 128 /\ s1 <= 143 /\ is_utf8tail(s2) /\ is_utf8tail(s3)
                THEN 4
                ELSE resync4(m, p)
          [] OTHER -> -1

\* The offset of the last byte the 3-byte cases read: r1 is the range test of
\* s[1]; s[2] is read when r1 holds (&& evaluates is_utf8tail(s[2])) or when
\* s[1] is no first byte (else if (is_utf8firstb(s[2]))).
reads3(m, p, r1) ==
    IF r1 THEN 2
    ELSE IF is_utf8firstb(MemAt(m, p + 1)) THEN 1
    ELSE 2

\* The offset of the last byte the 4-byte cases read: the && chain reads
\* s[2] when r1 holds and s[3] when s[2] is a tail byte as well; the else-if
\* chain reads on until it meets a first byte.
reads4(m, p, r1) ==
    IF r1 /\ is_utf8tail(MemAt(m, p + 2)) THEN 3
    ELSE IF is_utf8firstb(MemAt(m, p + 1)) THEN (IF r1 THEN 2 ELSE 1)
    ELSE IF is_utf8firstb(MemAt(m, p + 2)) THEN 2
    ELSE 3

\* The offset k of the last byte s[k] that utf8len(s) reads, s = m + p - 1
utf8len_reads(m, p) ==
    LET s0 == MemAt(m, p)
        s1 == MemAt(m, p + 1)
    IN  CASE s0 \in 194..223 -> 1
          [] s0 = 224 -> reads3(m, p, s1 >= 160 /\ s1 <= 191)
          [] s0 \in 225..236 -> reads3(m, p, is_utf8tail(s1))
          [] s0 = 237 -> reads3(m, p, s1 >= 128 /\ s1 <= 159)
          [] s0 \in 238..239 -> reads3(m, p, is_utf8tail(s1))
          [] s0 = 240 -> reads4(m, p, s1 >= 144 /\ s1 <= 191)
          [] s0 \in 241..243 -> reads4(m, p, is_utf8tail(s1))
          [] s0 = 244 -> reads4(m, p, s1 >= 128 /\ s1 <= 143)
          [] OTHER -> 0

----------------------------------------------------------------------------
(* The specification of utf8len alone: a buffer is drawn, utf8len is       *)
(* applied to its first byte.                                              *)

\* first bytes: the ends of every range the switch of utf8len tells apart
ULeadBytes ==
    {0, 65, 127, 128, 191, 192, 193, 194, 223, 224, 225, 236, 237, 238, 239,
     240, 241, 243, 244, 245, 255}

\* following bytes: the ends of the second-byte ranges and of the byte classes
UNextBytes == {0, 127, 128, 143, 144, 159, 160, 191, 192, 244, 255}

UBuffers ==
    UNION { { <<b>> \o t : b \in ULeadBytes, t \in [1..n -> UNextBytes] }
            : n \in 0..(MaxULen - 1) }

UIdle == ubuf = <<>> /\ ures = 0 /\ upc = "idle"
QIdle == qs = <<>> /\ qpos = 0 /\ qlen = 0 /\ qout = <<>> /\ qpc = "idle"
         /\ qadv = 0
         /\ qread = 0

\* Lua values: a type, a number and a string (a sequence of characters)
Num(k) == [t |-> "number", n |-> k, s |-> <<>>]
Str(x) == [t |-> "string", n |-> 0, s |-> x]
Nil == [t |-> "nil", n |-> 0, s |-> <<>>]
\* LUA_TNONE: what an index above the top of the stack holds
None == [t |-> "none", n |-> 0, s |-> <<>>]
Table == [t |-> "table", n |-> 0, s |-> <<>>]

NoSpec == [fmt |-> 0, tpos |-> 0, before |-> 0, after |-> 0, type |-> "",
           handed |-> <<>>, varg |-> 0, done |-> FALSE]
NoRet == [nret |-> 0, result |-> None, unused |-> <<>>, count |-> 0]
NoErr == [kind |-> "", text |-> <<>>]

FIdle == /\ stack = <<>> /\ slack = <<>> /\ overrun = FALSE /\ cur = 0
         /\ head = 0 /\ nextarg = 0 /\ pieces = <<>> /\ maxidx = 0
         /\ lastspec = NoSpec /\ lastarg = 0 /\ ret = NoRet /\ err = NoErr
         /\ pc = "idle"

InitU ==
    /\ ubuf \in UBuffers
    /\ ures = 0
    /\ upc = "call"
    /\ QIdle
    /\ FIdle

Utf8LenCall ==
    /\ upc = "call"
    /\ ures' = utf8len(CStr(ubuf), 1)
    /\ upc' = "done"
    /\ UNCHANGED <<ubuf>>
    /\ UNCHANGED qvars
    /\ UNCHANGED fvars

NextU == Utf8LenCall

SpecU == InitU /\ [][NextU]_vars

----------------------------------------------------------------------------
(* push_quoted_string: one action per iteration of its loop                *)

iscntrl(c) == c \in 0..31 \/ c = 127
isdigit(c) == c \in 48..57

\* the decimal digits of n >= 0 as bytes, as snprintf "%d" writes them
RECURSIVE DecBytes(_)
DecBytes(n) ==
    IF n < 10 THEN <<48 + n>>
    ELSE DecBytes(n \div 10) \o <<48 + (n % 10)>>

\* snprintf "%03d": at least three digits, padded with '0' on the left
Dec3Bytes(n) ==
    LET d == DecBytes(n)
    IN  IF Len(d) >= 3 THEN d
        ELSE IF Len(d) = 2 THEN <<48>> \o d
        ELSE <<48, 48>> \o d

\* what the single-byte branch appends for the byte c followed by nxt
escape_byte(c, nxt) ==
    IF c = 34 \/ c = 92 THEN <<92, c>>
    ELSE IF ~iscntrl(c) THEN <<c>>
    ELSE CASE c = 0 -> <<92, 48>>
           [] c = 7 -> <<92, 97>>
           [] c = 8 -> <<92, 98>>
           [] c = 9 -> <<92, 116>>
           [] c = 10 -> <<92, 110>>
           [] c = 11 -> <<92, 118>>
           [] c = 12 -> <<92, 102>>
           [] c = 13 -> <<92, 114>>
           [] OTHER -> IF ~isdigit(nxt) THEN <<92>> \o DecBytes(c)
                       ELSE <<92>> \o Dec3Bytes(c)

\* the offset of the last byte the single-byte branch reads: *(s + 1) is
\* read in the default case of the switch only
escape_reads(c) ==
    IF c = 34 \/ c = 92 THEN 0
    ELSE IF ~iscntrl(c) THEN 0
    ELSE IF c = 0 \/ c \in 7..13 THEN 0
    ELSE 1

\* U+FFFD
ReplacementChar == <<239, 191, 189>>

QBytes == {0, 1, 10, 34, 49, 92, 97, 127, 128, 144, 160, 195, 224, 240}

\* strings longer than MaxQLen: 4-byte sequences, whole and cut short
LongQStrings ==
    { <<240, 144, 128, 128>>, <<240, 144, 128, 255>>, <<240, 255, 255, 255>>,
      <<0, 240, 144, 128, 128>>, <<240, 144, 128, 128, 1>>,
      <<1, 49, 240, 144, 128>>, <<195, 160, 224, 160, 128>>,
      <<244, 143, 128, 128, 224, 160>> }

QStrings == UNION { [1..n -> QBytes] : n \in 0..MaxQLen } \cup LongQStrings

InitQ ==
    /\ qs \in QStrings
    /\ qpos = 1
    /\ qlen = Len(qs)
    /\ qout = <<>>
    /\ qpc = "begin"
    /\ qadv = 0
    /\ qread = 0
    /\ UIdle
    /\ FIdle

\* luaL_buffinit; luaL_addchar(&b, '"')
QuoteBegin ==
    /\ qpc = "begin"
    /\ qout' = <<34>>
    /\ qpc' = "loop"
    /\ UNCHANGED <<qs, qpos, qlen, qadv, qread>>
    /\ UNCHANGED uvars
    /\ UNCHANGED fvars

\* one iteration of while (len > 0); len is a size_t, so len > 0 is len != 0
\* and a negative qlen stands for the wrapped value
QuoteStep ==
    /\ qpc = "loop"
    /\ qlen # 0
    /\ LET m == CStr(qs)
           nbyte == utf8len(m, qpos)
           last == IF nbyte = 1
                   THEN qpos + escape_reads(MemAt(m, qpos))
                   ELSE qpos + utf8len_reads(m, qpos)
       IN  /\ qread' = IF last > qread THEN last ELSE qread
           /\ IF nbyte < 0
              THEN /\ qout' = qout \o ReplacementChar
                   /\ qpos' = qpos + (-nbyte)
                   /\ qlen' = qlen - (-nbyte)
                   /\ qadv' = -nbyte
              ELSE IF nbyte > 1
              THEN /\ qout' = qout \o [k \in 1..nbyte |-> MemAt(m, qpos + k - 1)]
                   /\ qpos' = qpos + nbyte
                   /\ qlen' = qlen - nbyte
                   /\ qadv' = nbyte
              ELSE /\ qout' = qout \o escape_byte(MemAt(m, qpos), MemAt(m, qpos + 1))
                   /\ qpos' = qpos + 1
                   /\ qlen' = qlen - 1
                   /\ qadv' = 1
    /\ UNCHANGED <<qs, qpc>>
    /\ UNCHANGED uvars
    /\ UNCHANGED fvars

\* the loop ends: luaL_addchar(&b, '"'); luaL_pushresult(&b)
QuoteEnd ==
    /\ qpc = "loop"
    /\ qlen = 0
    /\ qout' = qout \o <<34>>
    /\ qpc' = "done"
    /\ UNCHANGED <<qs, qpos, qlen, qadv, qread>>
    /\ UNCHANGED uvars
    /\ UNCHANGED fvars

NextQ == QuoteBegin \/ QuoteStep \/ QuoteEnd

SpecQ == InitQ /\ [][NextQ]_vars

----------------------------------------------------------------------------
(* format_arguments: the template scanner.  Characters are one-character   *)
(* strings; "NUL" is the zero byte.                                        *)

FlagChars == {"#", "I", "0", "-", " ", "+", "'"}
WidthChars == {"1", "2", "3", "4", "5", "6", "7", "8", "9", "0", "*"}
LengthChars == {"h", "l", "j", "z", "t", "L"}
TypeChars == {"d", "i", "o", "u", "x", "X", "e", "E", "f", "F", "g", "G",
              "a", "A", "c", "s", "p", "q", "m"}

\* strchr(set, c) != NULL: the terminating zero of the set string is found
\* when c is the zero byte
strchr(set, c) == c \in set \/ c = "NUL"

\* sizeof(buf): the placeholder buffer
PlaceholderSize == 255

\* the template's memory: its characters, the terminating zero and what
\* follows it
TemplateMem(t, sl) == t \o <<"NUL">> \o sl

\* *p for p a 1-based index; "UNMAPPED" outside the modelled memory
CharAt(m, i) == IF i \in 1..Len(m) THEN m[i] ELSE "UNMAPPED"

\* the value at a stack index; LUA_TNONE above the top
StackAt(S, i) == IF i \in 1..Len(S) THEN S[i] ELSE None

\* a C string: the characters before the first zero byte
RECURSIVE CText(_)
CText(b) ==
    IF b = <<>> \/ Head(b) = "NUL" THEN <<>>
    ELSE <<Head(b)>> \o CText(Tail(b))

DigitChar(d) == <<"0", "1", "2", "3", "4", "5", "6", "7", "8", "9">>[d + 1]

\* snprintf(buf, len, "%d", n)
RECURSIVE DecChars(_)
DecChars(n) ==
    IF n < 0 THEN <<"-">> \o DecChars(-n)
    ELSE IF n < 10 THEN <<DigitChar(n)>>
    ELSE DecChars(n \div 10) \o <<DigitChar(n % 10)>>

\* the state of one specifier's parse
\*   cur, head, nextarg: the variables of format_arguments
\*   ph, blen: the placeholder written so far and the room left in buf
\*   rd: the highest stack index read; e, etext: the error raised, if any
ParseState(c, h, na) ==
    [cur |-> c, head |-> h, nextarg |-> na, ph |-> <<>>,
     blen |-> PlaceholderSize, rd |-> 0, e |-> "", etext |-> <<>>]

Max(a, b) == IF a >= b THEN a ELSE b

\* COPY2PLACEHOLDER(str, len)
COPY2PLACEHOLDER(st, str) ==
    IF Len(str) >= st.blen
    THEN [st EXCEPT !.e = "placeholder too long", !.etext = st.ph]
    ELSE [st EXCEPT !.blen = @ - Len(str), !.ph = @ \o str]

\* a variant of uint2str without the test of idx against narg
uint2str_unchecked(S, placeholder, n, idx) ==
    IF StackAt(S, idx).t # "number"
    THEN [e |-> "bad argument type", etext |-> <<>>, w |-> <<>>, rd |-> idx]
    ELSE [e |-> "", etext |-> <<>>, w |-> DecChars(StackAt(S, idx).n),
          rd |-> idx]

\* uint2str(L, buf, len, placeholder, narg, idx): the digits written, or the
\* error raised
uint2str(S, placeholder, n, idx) ==
    IF idx > n
    THEN [e |-> "not enough arguments", etext |-> placeholder, w |-> <<>>,
          rd |-> 0]
    ELSE IF StackAt(S, idx).t # "number"
    THEN [e |-> "bad argument type", etext |-> <<>>, w |-> <<>>, rd |-> idx]
    ELSE [e |-> "", etext |-> <<>>, w |-> DecChars(StackAt(S, idx).n),
          rd |-> idx]

\* while (strchr("#I0- +'", *cur)) cur++;
RECURSIVE SkipFlags(_, _)
SkipFlags(m, c) ==
    IF strchr(FlagChars, CharAt(m, c)) THEN SkipFlags(m, c + 1) ELSE c


\* the body of the '*' branch of the width and of the precision loop
\* a variant of StarResolved with head = cur: the '*' is not skipped
StarResolved_keepstar(s1, r) ==
    IF s1.e # "" THEN s1
    ELSE IF r.e # ""
    THEN [s1 EXCEPT !.head = s1.cur, !.nextarg = @ + 1,
                    !.rd = Max(@, r.rd), !.e = r.e, !.etext = r.etext]
    ELSE COPY2PLACEHOLDER([s1 EXCEPT !.head = s1.cur, !.nextarg = @ + 1,
                                     !.rd = Max(@, r.rd)], r.w)

\*   s1: after the copy of the text before the '*'; r: what uint2str gave
StarResolved(s1, r) ==
    IF s1.e # "" THEN s1
    ELSE IF r.e # ""
    THEN [s1 EXCEPT !.head = s1.cur + 1, !.nextarg = @ + 1,
                    !.rd = Max(@, r.rd), !.e = r.e, !.etext = r.etext]
    ELSE COPY2PLACEHOLDER([s1 EXCEPT !.head = s1.cur + 1, !.nextarg = @ + 1,
                                     !.rd = Max(@, r.rd)], r.w)

StarArgument(m, S, fmt, st) ==
    StarResolved(COPY2PLACEHOLDER(st, SubSeq(m, st.head, st.cur - 1)),
                 uint2str(S, CText(SubSeq(m, fmt, Len(m))), Len(S),
                          st.nextarg + 1))

\* cur++ at the end of an iteration, unless an error was raised in it
NextChar(st) == IF st.e # "" THEN st ELSE [st EXCEPT !.cur = @ + 1]

\* while (strchr("1234567890*", *cur)) { if (*cur == '*') {...} cur++; }
RECURSIVE WidthLoop(_, _, _, _)
WidthLoop(m, S, fmt, st) ==
    IF st.e # "" THEN st
    ELSE IF ~strchr(WidthChars, CharAt(m, st.cur)) THEN st
    ELSE IF CharAt(m, st.cur) = "*"
    THEN WidthLoop(m, S, fmt, NextChar(StarArgument(m, S, fmt, st)))
    ELSE WidthLoop(m, S, fmt, NextChar(st))

\* if (*cur == '.') { cur++; while (...) {...} }
PrecisionField(m, S, fmt, st) ==
    IF st.e # "" THEN st
    ELSE IF CharAt(m, st.cur) = "."
    THEN WidthLoop(m, S, fmt, [st EXCEPT !.cur = @ + 1])
    ELSE st

\* if (strchr("hljztL", *cur)) cur++;
LengthModifier(m, st) ==
    IF st.e # "" THEN st
    ELSE IF strchr(LengthChars, CharAt(m, st.cur))
    THEN [st EXCEPT !.cur = @ + 1]
    ELSE st

\* the type field check, and the copy of the rest of the specifier
TypeField(m, fmt, st) ==
    IF st.e # "" THEN st
    ELSE IF CharAt(m, st.cur) = "UNMAPPED" THEN [st EXCEPT !.e = "fault"]
    ELSE IF ~strchr(TypeChars, CharAt(m, st.cur))
    THEN [st EXCEPT !.e = "unsupported type field",
                    !.etext = CText(SubSeq(m, fmt, Len(m)))]
    ELSE [COPY2PLACEHOLDER(st, SubSeq(m, st.head, st.cur))
            EXCEPT !.head = st.cur + 1]

\* lines 486-562: from the '%' at fmt to the copied placeholder
ParseSpecifier(m, S, fmt, na) ==
    TypeField(m, fmt,
      LengthModifier(m,
        PrecisionField(m, S, fmt,
          WidthLoop(m, S, fmt, ParseState(SkipFlags(m, fmt + 1), fmt, na)))))

----------------------------------------------------------------------------
(* push_format_string: the formatted text is kept symbolic, as the call of *)
(* asprintf that produces it                                               *)

\* how a value reads as text (tolstring, and the digits of a number)
ValueText(v) ==
    CASE v.t = "number" -> DecChars(v.n)
      [] v.t = "string" -> v.s
      [] OTHER -> <<v.t>>

IsNumeral(x) == x # <<>> /\ \A i \in 1..Len(x) : x[i] \in (WidthChars \ {"*"})

\* luaL_checkinteger, luaL_checknumber accept numbers and numeral strings
Coercible(v) == v.t = "number" \/ (v.t = "string" /\ IsNumeral(v.s))

Formatted(fmt, v) == Str(<<"asprintf(">> \o fmt \o <<",">> \o ValueText(v) \o <<")">>)

\* the value pushed, or the error raised
push_format_string(fmt, type, v) ==
    CASE type \in {"d", "i", "o", "u", "x", "X"} ->
            IF v.t = "boolean" \/ Coercible(v)
            THEN [e |-> "", v |-> Formatted(fmt, v)]
            ELSE [e |-> "bad argument type", v |-> Nil]
      [] type = "c" ->
            IF v.t = "string"
            THEN IF Len(v.s) > 1 THEN [e |-> "bad argument type", v |-> Nil]
                 ELSE [e |-> "", v |-> Formatted(fmt, v)]
            ELSE IF Coercible(v) THEN [e |-> "", v |-> Formatted(fmt, v)]
            ELSE [e |-> "bad argument type", v |-> Nil]
      [] type \in {"e", "E", "f", "F", "g", "G", "a", "A"} ->
            IF Coercible(v) THEN [e |-> "", v |-> Formatted(fmt, v)]
            ELSE [e |-> "bad argument type", v |-> Nil]
      [] type \in {"s", "p"} -> [e |-> "", v |-> Formatted(fmt, v)]
      [] type = "q" ->
            IF fmt # <<"%", "q">>
            THEN [e |-> "%q cannot have modifiers", v |-> Nil]
            ELSE [e |-> "", v |-> Str(<<"quoted(">> \o ValueText(v) \o <<")">>)]
      \* no case of the switch: mem stays NULL and lua_pushstring pushes nil
      [] OTHER -> [e |-> "", v |-> Nil]

\* what a specifier reports when its parse st has ended
Outcome(st) ==
    [kind |-> "ok", cur |-> st.cur, tpos |-> st.cur, head |-> st.head,
     nextarg |-> st.nextarg, rd |-> st.rd, piece |-> Nil, handed |-> <<>>,
     varg |-> 0, e |-> st.e, etext |-> st.etext]

\* lines 564-577 for a type other than 'm': the argument idx is formatted
\* with the placeholder text
FormatValue(S, st, type, idx, text, r) ==
    IF idx > Len(S)
    THEN [Outcome(st) EXCEPT !.kind = "error", !.nextarg = idx,
                             !.e = "not enough arguments", !.etext = text]
    ELSE IF r.e # ""
    THEN [Outcome(st) EXCEPT !.kind = "error", !.nextarg = idx,
                             !.rd = Max(@, idx), !.handed = text,
                             !.varg = idx, !.e = r.e, !.etext = text]
    ELSE [Outcome(st) EXCEPT !.nextarg = idx,
                             !.rd = IF type \in TypeChars THEN Max(@, idx)
                                    ELSE @,
                             !.piece = r.v, !.handed = text, !.varg = idx,
                             !.cur = @ + 1]

\* a variant of FinishSpecifier without the branch for 'm'
FinishSpecifier_noM(m, S, st) ==
    IF st.e = "fault" THEN [Outcome(st) EXCEPT !.kind = "fault"]
    ELSE IF st.e # "" THEN [Outcome(st) EXCEPT !.kind = "error"]
    ELSE FormatValue(S, st, CharAt(m, st.cur), st.nextarg + 1, CText(st.ph),
                     push_format_string(CText(st.ph), CharAt(m, st.cur),
                                        StackAt(S, st.nextarg + 1)))

\* lines 564-579, after the parse st of the specifier
\*   kind: "ok", "error" or "fault"; piece: the value pushed
FinishSpecifier(m, S, st) ==
    IF st.e = "fault" THEN [Outcome(st) EXCEPT !.kind = "fault"]
    ELSE IF st.e # "" THEN [Outcome(st) EXCEPT !.kind = "error"]
    ELSE IF CharAt(m, st.cur) = "m"
    THEN [Outcome(st) EXCEPT !.piece = Str(<<"strerror(errno)">>),
                             !.cur = @ + 1]
    ELSE FormatValue(S, st, CharAt(m, st.cur), st.nextarg + 1, CText(st.ph),
                     push_format_string(CText(st.ph), CharAt(m, st.cur),
                                        StackAt(S, st.nextarg + 1)))

\* what a specifier at fmt does, given the memory m
SpecifierOutcome(m, S, fmt, na) ==
    FinishSpecifier(m, S, ParseSpecifier(m, S, fmt, na))

----------------------------------------------------------------------------
(* format_lua: concatenation and the packaging of the unused arguments     *)

\* lua_concat(L, n) on the n values above the arguments: the value left on
\* the stack, or the error raised
lua_concat(ps) ==
    IF Len(ps) = 0 THEN [e |-> "", v |-> Str(<<>>)]
    ELSE IF Len(ps) = 1 THEN [e |-> "", v |-> ps[1]]
    ELSE IF \E i \in 1..Len(ps) : ps[i].t \notin {"string", "number"}
    THEN [e |-> "attempt to concatenate", v |-> Nil]
    ELSE LET F[i \in 0..Len(ps)] ==
                 IF i = 0 THEN <<>> ELSE F[i - 1] \o ValueText(ps[i])
         IN  [e |-> "", v |-> Str(F[Len(ps)])]

\* lua_insert(L, idx): the top value moves to idx, those from idx on shift up
lua_insert(S, idx) ==
    SubSeq(S, 1, idx - 1) \o <<S[Len(S)]>> \o SubSeq(S, idx, Len(S) - 1)

\* a variant of the loop that counts upwards: for (i = 1; i <= unused; i++)
RECURSIVE RawSetLoop_upwards(_, _, _)
RawSetLoop_upwards(S, tbl, i) ==
    IF i = 0 THEN [S |-> S, tbl |-> tbl]
    ELSE RawSetLoop_upwards(SubSeq(S, 1, Len(S) - 1),
                            [tbl EXCEPT ![Len(tbl) - i + 1] = S[Len(S)]],
                            i - 1)

\* for (int i = unused; i > 0; i--) lua_rawseti(L, tblidx, i);
RECURSIVE RawSetLoop(_, _, _)
RawSetLoop(S, tbl, i) ==
    IF i = 0 THEN [S |-> S, tbl |-> tbl]
    ELSE RawSetLoop(SubSeq(S, 1, Len(S) - 1),
                    [tbl EXCEPT ![i] = S[Len(S)]], i - 1)

\* lines 597-617, with S the stack after lua_concat
\* return 3: the three values on top of the stack S, tbl the table's content
ReturnThree(S, tbl) ==
    [nret |-> 3,
     result |-> S[Len(S) - 2],
     unused |-> IF S[Len(S) - 1] = Table THEN tbl ELSE <<>>,
     count |-> S[Len(S)].n]

\* lua_pushinteger(L, unused); return 3; r is what the loop left
PushCount(r, unused) == ReturnThree(r.S \o <<Num(unused)>>, r.tbl)

\* lines 597-617, with S the stack after lua_concat
PackUnused(S, n, last) ==
    IF n - last > 0
    THEN PushCount(
           RawSetLoop(lua_insert(lua_insert(S, last + 1) \o <<Table>>,
                                 last + 2),
                      [k \in 1..(n - last) |-> Nil], n - last),
           n - last)
    ELSE [nret |-> 1, result |-> S[Len(S)], unused |-> <<>>, count |-> 0]

----------------------------------------------------------------------------
(* The specification of a call of format                                   *)

TmplChars == {"%", "*", "5", ".", "-", "l", "d", "m", "k", "NUL"}
SlackChars == {"NUL", "d", "k"}

\* longer templates: '*' in width and precision, flags and a length modifier
LongTemplates ==
    { <<"%", "*", ".", "*", "d">>,
      <<"%", "-", "*", ".", "*", "l", "d">>,
      <<"%", "5", ".", "*", "d", "k">>,
      <<"k", "%", "%", "%", "*", ".", "5", "m">>,
      <<"%", "*", ".", "*", "l", "m", "%", "d">>,
      <<"%", "*", "*", "*", "d">>,
      <<"%", "*", "*", "d">>,
      <<"%", "d", "%", "d", "%", "d">>,
      <<"k", "NUL", "%", "d">> }

Templates == UNION { [1..n -> TmplChars] : n \in 0..MaxTmplLen }
                 \cup LongTemplates

\* the arguments after the template: the j-th is the number 10 + j, but for
\* at most one, which is the string "k"
ArgLists ==
    UNION { { [j \in 1..n |-> IF j = k THEN Str(<<"k">>) ELSE Num(10 + j)]
              : k \in 0..n } : n \in 0..MaxArgs }
Slacks == [1..MaxSlack -> SlackChars]

Stacks ==
    {<<>>} \cup
    { <<t>> \o a : t \in {Str(x) : x \in Templates} \cup {Num(12), Nil},
                   a \in ArgLists }

Init ==
    /\ stack \in Stacks
    /\ slack = <<>>
    /\ overrun = FALSE
    /\ cur = 0
    /\ head = 0
    /\ nextarg = 0
    /\ pieces = <<>>
    /\ maxidx = 0
    /\ lastspec = NoSpec
    /\ lastarg = 0
    /\ ret = NoRet
    /\ err = NoErr
    /\ pc = "entry"
    /\ UIdle
    /\ QIdle

narg == Len(stack)
Template == stack[1].s
Mem == TemplateMem(Template, slack)

\* a variant of NonStringTemplate that returns fmt_idx
NonStringTemplate_fmtidx ==
    /\ pc = "entry"
    /\ StackAt(stack, 1).t # "string"
    /\ lastarg' = 1
    /\ pc' = "concat"
    /\ UNCHANGED <<stack, slack, overrun, cur, head, nextarg, pieces, maxidx,
                   lastspec, ret, err>>
    /\ UNCHANGED <<uvars, qvars>>

\* if (lua_type(L, fmt_idx) != LUA_TSTRING) return 0;
NonStringTemplate ==
    /\ pc = "entry"
    /\ StackAt(stack, 1).t # "string"
    /\ lastarg' = 0
    /\ pc' = "concat"
    /\ UNCHANGED <<stack, slack, overrun, cur, head, nextarg, pieces, maxidx,
                   lastspec, ret, err>>
    /\ UNCHANGED <<uvars, qvars>>

\* fmt = head = cur = lua_tostring(L, fmt_idx); nextarg = fmt_idx
StartScan ==
    /\ pc = "entry"
    /\ StackAt(stack, 1).t = "string"
    /\ cur' = 1
    /\ head' = 1
    /\ nextarg' = 1
    /\ pc' = "scan"
    /\ UNCHANGED <<stack, slack, overrun, pieces, maxidx, lastspec, lastarg,
                   ret, err>>
    /\ UNCHANGED <<uvars, qvars>>

\* an iteration of while (*cur) on a character that is not '%'
Literal ==
    /\ pc = "scan"
    /\ CharAt(Mem, cur) \notin {"NUL", "%", "UNMAPPED"}
    /\ cur' = cur + 1
    /\ UNCHANGED <<stack, slack, overrun, head, nextarg, pieces, maxidx,
                   lastspec, lastarg, ret, err, pc>>
    /\ UNCHANGED <<uvars, qvars>>

\* if (cur[1] == '%'): the literal run and one '%' are pushed
EscapedPercent ==
    /\ pc = "scan"
    /\ CharAt(Mem, cur) = "%"
    /\ CharAt(Mem, cur + 1) = "%"
    /\ pieces' = Append(pieces, Str(SubSeq(Mem, head, cur)))
    /\ cur' = cur + 2
    /\ head' = cur + 2
    /\ UNCHANGED <<stack, slack, overrun, nextarg, maxidx, lastspec, lastarg,
                   ret, err, pc>>
    /\ UNCHANGED <<uvars, qvars>>

\* an iteration of while (*cur) on a '%' that starts a specifier.  What lies
\* behind the terminating zero is fixed when the scan first moves there.
Specifier ==
    /\ pc = "scan"
    /\ CharAt(Mem, cur) = "%"
    /\ CharAt(Mem, cur + 1) # "%"
    /\ \E sl \in (IF overrun THEN {slack} ELSE Slacks) :
       \E o \in {SpecifierOutcome(TemplateMem(Template, sl), stack, cur,
                                    nextarg)} :
         LET m == TemplateMem(Template, sl)
             lead == IF cur # head THEN <<Str(SubSeq(m, head, cur - 1))>>
                     ELSE <<>>
             beyond == o.cur > Len(Template) + 1
         IN  /\ overrun' = (overrun \/ beyond)
             /\ slack' = IF beyond THEN sl ELSE slack
             /\ cur' = o.cur
             /\ head' = o.head
             /\ nextarg' = o.nextarg
             /\ maxidx' = Max(maxidx, o.rd)
             /\ pieces' = IF o.kind = "ok" THEN pieces \o lead \o <<o.piece>>
                          ELSE pieces \o lead
             /\ lastspec' = [fmt |-> cur, tpos |-> o.tpos, before |-> nextarg,
                             after |-> o.nextarg, type |-> CharAt(m, o.tpos),
                             handed |-> o.handed, varg |-> o.varg,
                             done |-> (o.kind = "ok")]
             /\ err' = IF o.kind = "error"
                       THEN [kind |-> o.e, text |-> o.etext] ELSE err
             /\ pc' = CASE o.kind = "ok" -> "scan"
                        [] o.kind = "error" -> "error"
                        [] OTHER -> "fault"
    /\ UNCHANGED <<stack, lastarg, ret>>
    /\ UNCHANGED <<uvars, qvars>>

\* while (*cur) ends at a zero byte: the trailing run is pushed and nextarg
\* returned
EndOfTemplate ==
    /\ pc = "scan"
    /\ CharAt(Mem, cur) = "NUL"
    /\ pieces' = IF cur > head
                 THEN Append(pieces, Str(SubSeq(Mem, head, cur - 1)))
                 ELSE pieces
    /\ lastarg' = nextarg
    /\ pc' = "concat"
    /\ UNCHANGED <<stack, slack, overrun, cur, head, nextarg, maxidx,
                   lastspec, ret, err>>
    /\ UNCHANGED <<uvars, qvars>>

\* while (*cur) reads behind the modelled memory
ScanFault ==
    /\ pc = "scan"
    /\ CharAt(Mem, cur) = "UNMAPPED"
    /\ pc' = "fault"
    /\ UNCHANGED <<stack, slack, overrun, cur, head, nextarg, pieces, maxidx,
                   lastspec, lastarg, ret, err>>
    /\ UNCHANGED <<uvars, qvars>>

\* format_lua after format_arguments has returned
FormatLuaReturn ==
    /\ pc = "concat"
    /\ \E c \in {lua_concat(pieces)} :
           IF c.e # ""
           THEN /\ err' = [kind |-> c.e, text |-> <<>>]
                /\ pc' = "error"
                /\ ret' = ret
           ELSE /\ ret' = PackUnused(stack \o <<c.v>>, narg, lastarg)
                /\ pc' = "done"
                /\ err' = err
    /\ UNCHANGED <<stack, slack, overrun, cur, head, nextarg, pieces, maxidx,
                   lastspec, lastarg>>
    /\ UNCHANGED <<uvars, qvars>>

Next ==
    \/ NonStringTemplate
    \/ StartScan
    \/ Literal
    \/ EscapedPercent
    \/ Specifier
    \/ EndOfTemplate
    \/ ScanFault
    \/ FormatLuaReturn

Spec == Init /\ [][Next]_vars

----------------------------------------------------------------------------
(* Well-formed UTF-8 and Lua string literals, as the properties below use  *)
(* them                                                                    *)

\* The Unicode Standard, Table 3-7, Well-Formed UTF-8 Byte Sequences: each row
\* gives the range of every byte of a sequence
Utf8Table ==
    { << <<0, 127>> >>,
      << <<194, 223>>, <<128, 191>> >>,
      << <<224, 224>>, <<160, 191>>, <<128, 191>> >>,
      << <<225, 236>>, <<128, 191>>, <<128, 191>> >>,
      << <<237, 237>>, <<128, 159>>, <<128, 191>> >>,
      << <<238, 239>>, <<128, 191>>, <<128, 191>> >>,
      << <<240, 240>>, <<144, 191>>, <<128, 191>>, <<128, 191>> >>,
      << <<241, 243>>, <<128, 191>>, <<128, 191>>, <<128, 191>> >>,
      << <<244, 244>>, <<128, 143>>, <<128, 191>>, <<128, 191>> >> }

InRange(b, r) == r[1] <= b /\ b <= r[2]

\* the bytes of m from index p on start with a sequence of the row
MatchesRow(m, p, row) ==
    \A k \in 1..Len(row) : InRange(MemAt(m, p + k - 1), row[k])

\* the first L bytes at p are a well-formed sequence
WellFormedAt(m, p, L) ==
    \E row \in Utf8Table : Len(row) = L /\ MatchesRow(m, p, row)

\* b starts some row of the table
ValidLead(b) == \E row \in Utf8Table : InRange(b, row[1])

\* the length of the sequences b starts; 1 when it starts none
ImpliedLength(b) ==
    IF ValidLead(b)
    THEN Len(CHOOSE row \in Utf8Table : InRange(b, row[1]))
    ELSE 1

\* the offset of the first byte after m[p] that is a valid lead byte, capped at
\* the length m[p] implies
ResyncSkip(m, p) ==
    LET n == ImpliedLength(MemAt(m, p))
        C == {k \in 1..(n - 1) : ValidLead(MemAt(m, p + k))}
    IN  IF C = {} THEN n ELSE CHOOSE k \in C : \A j \in C : k <= j

\* the byte string s is a concatenation of well-formed sequences
RECURSIVE WellFormedUtf8(_)
WellFormedUtf8(s) ==
    \/ s = <<>>
    \/ \E row \in Utf8Table :
         /\ Len(row) <= Len(s)
         /\ MatchesRow(s, 1, row)
         /\ WellFormedUtf8(SubSeq(s, Len(row) + 1, Len(s)))

\* the number of decimal digits, at most three, at the head of b
DigitRun(b) ==
    IF Len(b) >= 3 /\ isdigit(b[1]) /\ isdigit(b[2]) /\ isdigit(b[3]) THEN 3
    ELSE IF Len(b) >= 2 /\ isdigit(b[1]) /\ isdigit(b[2]) THEN 2
    ELSE IF Len(b) >= 1 /\ isdigit(b[1]) THEN 1
    ELSE 0

RECURSIVE DigitsValue(_)
DigitsValue(d) ==
    IF d = <<>> THEN 0
    ELSE 10 * DigitsValue(SubSeq(d, 1, Len(d) - 1)) + (d[Len(d)] - 48)

\* the byte a one-letter escape stands for, -1 when it is none
LuaEscape(c) ==
    CASE c = 97 -> 7
      [] c = 98 -> 8
      [] c = 116 -> 9
      [] c = 110 -> 10
      [] c = 118 -> 11
      [] c = 102 -> 12
      [] c = 114 -> 13
      [] c = 34 -> 34
      [] c = 92 -> 92
      [] OTHER -> -1

\* the bytes the body b of a Lua string literal denotes; <<-1>> where Lua
\* rejects it
RECURSIVE LuaBody(_)
LuaBody(b) ==
    IF b = <<>> THEN <<>>
    ELSE IF Head(b) = 34 \/ Head(b) = 10 THEN <<-1>>
    ELSE IF Head(b) # 92 THEN <<Head(b)>> \o LuaBody(Tail(b))
    ELSE IF Len(b) < 2 THEN <<-1>>
    ELSE IF LuaEscape(b[2]) # -1
    THEN <<LuaEscape(b[2])>> \o LuaBody(SubSeq(b, 3, Len(b)))
    ELSE IF isdigit(b[2])
    THEN LET n == DigitRun(Tail(b))
             v == DigitsValue(SubSeq(b, 2, n + 1))
         IN  IF v > 255 THEN <<-1>>
             ELSE <<v>> \o LuaBody(SubSeq(b, n + 2, Len(b)))
    ELSE <<-1>>

\* the bytes the literal o, quotes included, denotes
LuaLiteral(o) ==
    IF Len(o) < 2 \/ o[1] # 34 \/ o[Len(o)] # 34 THEN <<-1>>
    ELSE LuaBody(SubSeq(o, 2, Len(o) - 1))

----------------------------------------------------------------------------
(* Properties of a call of format (specification Spec)                     *)

StringTemplate == StackAt(stack, 1).t = "string"

\* literal characters followed by an odd number of '%'
RECURSIVE PercentRun(_)
PercentRun(t) ==
    IF t # <<>> /\ t[Len(t)] = "%"
    THEN 1 + PercentRun(SubSeq(t, 1, Len(t) - 1))
    ELSE 0

LoneTrailingPercent(t) ==
    /\ PercentRun(t) % 2 = 1
    /\ \A i \in 1..(Len(t) - PercentRun(t)) : t[i] \notin {"%", "NUL"}

\* C1: a template that ends with a lone '%' (after literal text or '%%'
\* pairs) fails with the unsupported-type error: the call never returns a
\* result and the scan never moves behind the terminating zero byte.
C1_LoneTrailingPercentRejected ==
    (StringTemplate /\ LoneTrailingPercent(Template)) =>
        /\ ~overrun
        /\ cur <= Len(Template) + 1
        /\ pc \in {"entry", "scan", "error"}
        /\ (pc = "error" => err.kind = "unsupported type field")

\* C3: a string template without '%', zero bytes included, is returned byte
\* for byte, and every argument after it is returned unused.
C3_NoPercentIdentity ==
    (StringTemplate /\ \A i \in 1..Len(Template) : Template[i] # "%") =>
        /\ pc \notin {"error", "fault"}
        /\ pc = "done" =>
             /\ ret.result = Str(Template)
             /\ lastarg = 1
             /\ ret.unused = SubSeq(stack, 2, narg)
             /\ ret.count = narg - 1

\* C4 as claimed: a template that is no string is itself the result, and the
\* arguments after it are what is returned unused.
C4_NonStringReturnsTemplate ==
    (pc = "done" /\ narg >= 1 /\ ~StringTemplate) =>
        /\ ret.result = StackAt(stack, 1)
        /\ ret.unused = SubSeq(stack, 2, narg)

\* C4 as amended: with a template that is no string nothing is formatted and
\* no error is raised; the result is the empty string and every value of the
\* call, the template first, is returned unused with their count.
C4_NonStringAllUnused ==
    (pc # "idle" /\ ~StringTemplate) =>
        /\ pc \in {"entry", "concat", "done"}
        /\ pieces = <<>> /\ maxidx = 0 /\ nextarg = 0
        /\ pc = "done" =>
             /\ ret.result = Str(<<>>)
             /\ IF narg = 0 THEN ret.nret = 1
                ELSE /\ ret.nret = 3
                     /\ ret.unused = stack
                     /\ ret.count = narg

C4_Witness ==
    /\ pc = "done" /\ ~StringTemplate
    /\ narg = 3 /\ ret.nret = 3 /\ ret.unused[1] = Nil

\* C5: a successful call with a string template returns the result string
\* alone when no argument is left over, and else the result string, the
\* arguments after the last one consumed, in their order, and their count.
C5_UnusedPackaging ==
    (pc = "done" /\ StringTemplate) =>
        /\ lastarg = nextarg
        /\ narg - lastarg >= 0
        /\ ret.result = lua_concat(pieces).v
        /\ IF narg - lastarg > 0
           THEN /\ ret.nret = 3
                /\ ret.unused = SubSeq(stack, lastarg + 1, narg)
                /\ ret.count = narg - lastarg
           ELSE ret.nret = 1

C5_Witness ==
    /\ pc = "done" /\ StringTemplate
    /\ lastarg = 2 /\ narg = 4 /\ ret.nret = 3 /\ ret.count = 2
    /\ ret.unused = <<Num(12), Num(13)>>

\* the text of the specifier handled last, from its '%' to its type character
SpecText == SubSeq(Mem, lastspec.fmt, lastspec.tpos)

RECURSIVE StarCount(_)
StarCount(t) ==
    IF t = <<>> THEN 0
    ELSE (IF Head(t) = "*" THEN 1 ELSE 0) + StarCount(Tail(t))

\* the index of the first '.' of t, Len(t) + 1 when it has none
RECURSIVE DotAt(_)
DotAt(t) ==
    IF t = <<>> \/ Head(t) = "." THEN 1 ELSE 1 + DotAt(Tail(t))

WidthStars(t) == StarCount(SubSeq(t, 1, DotAt(t) - 1))
PrecisionStars(t) == StarCount(SubSeq(t, DotAt(t), Len(t)))

\* C6 as claimed: a specifier of type 'm' leaves nextarg as it was, whatever
\* its flags, width, precision ('*' included) and length modifier.
C6_PercentMLeavesNextarg ==
    (lastspec.done /\ lastspec.type = "m") =>
        lastspec.after = lastspec.before

\* C6 as amended: a specifier of type 'm' takes no argument for its value:
\* nextarg grows by the number of '*' of its width and precision, and by
\* nothing when it has none.
C6_PercentMTakesOnlyStars ==
    (lastspec.done /\ lastspec.type = "m") =>
        /\ lastspec.after = lastspec.before + StarCount(SpecText)
        /\ lastspec.varg = 0
        /\ nextarg = lastspec.after

C6_Witness ==
    /\ lastspec.done /\ lastspec.type = "m"
    /\ StarCount(SpecText) = 2 /\ "l" \in {SpecText[i] : i \in 1..Len(SpecText)}
    /\ lastspec.after = lastspec.before + 2
    /\ ~overrun

\* C7: when a specifier needs an argument behind the last one, for its value
\* or for a '*', the call fails with the not-enough-arguments error naming
\* the specifier, returns nothing, and no index above the last is read.
C7_NotEnoughArguments ==
    pc # "idle" =>
        /\ maxidx <= narg
        /\ (nextarg > narg /\ StringTemplate) =>
             /\ pc = "error"
             /\ err.kind = "not enough arguments"
             /\ err.text # <<>> /\ err.text[1] = "%"
             /\ CharAt(Mem, lastspec.fmt) = "%"
             /\ ret = NoRet
        /\ err.kind = "not enough arguments" =>
             nextarg = narg + 1 /\ pc = "error"

C7_Witness ==
    /\ pc = "error" /\ err.kind = "not enough arguments"
    /\ narg = 3 /\ nextarg = 4 /\ maxidx = 3
    /\ lastspec.type = "*"

\* the text t with every '*' replaced by the digits of the arguments after
\* index na, in their order
RECURSIVE SubstStars(_, _, _)
SubstStars(t, S, na) ==
    IF t = <<>> THEN <<>>
    ELSE IF Head(t) = "*"
    THEN DecChars(StackAt(S, na + 1).n) \o SubstStars(Tail(t), S, na + 1)
    ELSE <<Head(t)>> \o SubstStars(Tail(t), S, na)

\* the specifier handled last lies in the template, has a '*' and reached the
\* formatter
DynamicSpecifier ==
    /\ lastspec.handed # <<>>
    /\ lastspec.tpos <= Len(Template)
    /\ "NUL" \notin {SpecText[i] : i \in 1..Len(SpecText)}
    /\ StarCount(SpecText) > 0

\* C8: each '*' takes the next argument, those of the width before those of
\* the precision before the value, and the formatter is handed the text of
\* the specifier with each '*' replaced by the digits of its argument: what
\* it produces is what the specifier with these digits written in the
\* template produces for the value.
C8_DynamicWidthPrecision ==
    DynamicSpecifier =>
        /\ lastspec.handed = SubstStars(SpecText, stack, lastspec.before)
        /\ lastspec.after = lastspec.before + StarCount(SpecText) + 1
        /\ lastspec.varg = lastspec.after
        /\ (lastspec.done /\ pc = "scan" /\ cur = lastspec.tpos + 1) =>
             pieces[Len(pieces)] =
                 push_format_string(
                     SubstStars(SpecText, stack, lastspec.before),
                     lastspec.type, stack[lastspec.after]).v

C8_Witness ==
    /\ DynamicSpecifier /\ lastspec.done
    /\ SpecText = <<"%", "*", ".", "*", "d">>
    /\ lastspec.handed = <<"%", "1", "1", ".", "1", "2", "d">>
    /\ lastspec.varg = 4

\* C10: per specifier nextarg does not decrease; the width holds at most one
\* '*' and so does the precision, so a specifier takes at most one argument
\* for each and, unless its type is 'm', one for its value: three at most.
C10_ArgumentAccounting ==
    (/\ lastspec.done
     /\ lastspec.tpos <= Len(Template)
     /\ "NUL" \notin {SpecText[i] : i \in 1..Len(SpecText)}) =>
        /\ lastspec.after >= lastspec.before
        /\ WidthStars(SpecText) <= 1
        /\ PrecisionStars(SpecText) <= 1
        /\ lastspec.after - lastspec.before <= 3
        /\ lastspec.after - lastspec.before =
               WidthStars(SpecText) + PrecisionStars(SpecText)
               + (IF lastspec.type = "m" THEN 0 ELSE 1)

----------------------------------------------------------------------------
(* Properties of push_quoted_string (specification SpecQ)                  *)

\* C2: for a well-formed UTF-8 string, control bytes, zero bytes, quotes,
\* backslashes and digits included, the quoted string read back as a Lua
\* string literal is the string.
C2_QuoteRoundTrip ==
    (qpc = "done" /\ WellFormedUtf8(qs)) => LuaLiteral(qout) = qs

----------------------------------------------------------------------------
(* Properties of utf8len (specification SpecU)                             *)

\* C9: utf8len gives L in 1..4 exactly when the first L bytes are a
\* well-formed sequence of the table; otherwise it gives -k, k the offset of
\* the first following byte that is a valid lead byte, at most the length
\* the first byte implies (1 for 80-C1 and F5-FF).
C9_Utf8LenTable ==
    upc = "done" =>
        LET m == CStr(ubuf)
        IN  /\ \A L \in 1..4 : WellFormedAt(m, 1, L) <=> ures = L
            /\ ures \in (1..4) \cup {-4, -3, -2, -1}
            /\ ures < 0 => ures = -ResyncSkip(m, 1)

C9_Witness ==
    /\ upc = "done" /\ ures = -3
    /\ ubuf = <<240, 144, 128, 0>>

----------------------------------------------------------------------------
(* The quoted-string encoder's loop *)

\* C11: in push_quoted_string, for a string of n bytes followed by its
\* terminating zero byte, every iteration of the loop moves the cursor on by
\* at least one byte and by no more than the bytes that remain, so that the
\* remaining length never passes below zero and cursor and remaining length
\* always add up to n; no byte behind the terminating zero is read; and the
\* loop is left with the cursor exactly behind the n-th byte.
C11_QuoteLoopInBounds ==
    qpc \in {"loop", "done"} =>
        /\ qlen \in 0..Len(qs)
        /\ qpos + qlen = Len(qs) + 1
        /\ qadv \in 0..4
        /\ (qpos > 1 => qadv >= 1)
        /\ qread <= Len(qs) + 1
        /\ (qpc = "done" => qpos = Len(qs) + 1 /\ qlen = 0)

\* an embedded zero byte and a 3-byte sequence cut short at the end of the
\* string: the decoder has read the terminating zero and skipped two bytes
C11_Witness ==
    /\ qpc = "done"
    /\ qs = <<0, 224, 160>>
    /\ qadv = 2
    /\ qread = 4

====
